---- MODULE Spec2Model ----
(***************************************************************************)
(* Model of the proxy core of the tunnel crate (src/src/proxy/mod.rs):     *)
(*   - the Address value type and its conversions to and from text,        *)
(*   - name_to_socket_addr / connect_to_remote_tcp / connect_to_remote_udp *)
(*     running as concurrent tasks over the shared Arc<RwLock<DnsClient>>,  *)
(*   - the two socket factories.                                           *)
(* Text is modelled as a sequence of one-character strings.                *)
(***************************************************************************)
EXTENDS Integers, Sequences, FiniteSets, TLC

VARIABLES
    \* ---- Address conversions (one conversion chain per behaviour) ----
    a_pc,       \* position in the conversion chain
    a_str,      \* the text being parsed / produced first
    a_pair,     \* the (name, port) pair given to TryFrom, if any
    a_addr,     \* the Address (or the panic) of the chain
    a_str2,     \* text rendered from a_addr
    a_addr2,    \* Address parsed back from a_str2
    a_port,     \* value returned by Address::port() on a_addr
    \* ---- Resolution tasks over the shared Arc<RwLock<DnsClient>> ----
    d_pc,       \* per task: its suspension point
    d_fn,       \* per task: the function it runs
    d_addr,     \* per task: the Address it was given
    d_look,     \* per task: what lookup returned to it
    d_query,    \* per task: the text it passed to lookup
    d_res,      \* per task: what name_to_socket_addr returned
    d_conn,     \* per task: the socket address it called connect on
    d_ret,      \* per task: what the function returned
    readers,    \* tasks holding a read guard of the RwLock
    writer,     \* the mutating task: "idle", "waiting" or "writing"
    queue,      \* FIFO wait queue of the RwLock
    \* ---- One call of a socket factory ----
    s_pc,       \* position in the factory
    s_fn,       \* which factory runs
    s_arg,      \* its argument: an IpAddr (UDP) or a SocketAddr (TCP)
    s_sock,     \* the socket2 socket, once created
    s_failed,   \* the setup steps that failed
    s_log,      \* the log::error! lines written
    s_ret       \* the io::Result returned

addrVars == <<a_pc, a_str, a_pair, a_addr, a_str2, a_addr2, a_port>>
dnsVars == <<d_pc, d_fn, d_addr, d_look, d_query, d_res, d_conn, d_ret,
             readers, writer, queue>>
sockVars == <<s_pc, s_fn, s_arg, s_sock, s_failed, s_log, s_ret>>
vars == <<addrVars, dnsVars, sockVars>>

----------------------------------------------------------------------------
(* Bounds of the explored input space *)

MaxLen == 3          \* every text over Chars up to this length is an input
MaxPortDigits == 5   \* port segments have up to this many digits
MaxNameLen == 2      \* domain names have up to this many characters
NumConns == 2        \* concurrent resolution tasks
MaxIps == 2          \* a lookup returns up to this many addresses

Chars == {"0", "1", "7", "a", ".", ":", "+"}
PortDigitChars == {"0", "7"}
NameChars == {"a", "1", "."}

----------------------------------------------------------------------------
(* Text helpers *)

U8Max == 255
U16Max == 65535

IsDigit(ch) == ch \in {"0", "1", "2", "3", "4", "5", "6", "7", "8", "9"}

DigitVal(ch) ==
    CASE ch = "0" -> 0 [] ch = "1" -> 1 [] ch = "2" -> 2 [] ch = "3" -> 3
      [] ch = "4" -> 4 [] ch = "5" -> 5 [] ch = "6" -> 6 [] ch = "7" -> 7
      [] ch = "8" -> 8 [] ch = "9" -> 9

DigitChar(d) ==
    CASE d = 0 -> "0" [] d = 1 -> "1" [] d = 2 -> "2" [] d = 3 -> "3"
      [] d = 4 -> "4" [] d = 5 -> "5" [] d = 6 -> "6" [] d = 7 -> "7"
      [] d = 8 -> "8" [] d = 9 -> "9"

\* Decimal rendering of a non-negative integer ({} formatting of u8 / u16).
RECURSIVE DecStr(_)
DecStr(n) == IF n < 10 THEN <<DigitChar(n)>>
             ELSE DecStr(n \div 10) \o <<DigitChar(n % 10)>>

\* All texts over the alphabet A of length exactly n / at most n.
StrsOfLen(A, n) == [1..n -> A]
StrsUpTo(A, n) == UNION {StrsOfLen(A, k) : k \in 0..n}

None == [tag |-> "None"]
Str(s) == [tag |-> "Str", s |-> s]

----------------------------------------------------------------------------
(* std::net parser, as used by s.parse::<SocketAddr>() *)

\* Parser::read_number: reads the maximal run of decimal digits from pos,
\* failing on checked-arithmetic overflow, on more than maxDigits digits
\* (maxDigits = 0 means no limit), on an empty run, and on a zero prefix
\* when it is not allowed.  Returns [ok, val, pos].
RECURSIVE ReadDigits(_, _, _, _, _, _)
ReadDigits(s, pos, acc, count, maxDigits, maxVal) ==
    IF pos <= Len(s) /\ IsDigit(s[pos])
    THEN LET v == acc * 10 + DigitVal(s[pos]) IN
         IF v > maxVal THEN [ok |-> FALSE, val |-> 0, pos |-> pos, count |-> count]
         ELSE IF maxDigits > 0 /\ count + 1 > maxDigits
              THEN [ok |-> FALSE, val |-> 0, pos |-> pos, count |-> count]
              ELSE ReadDigits(s, pos + 1, v, count + 1, maxDigits, maxVal)
    ELSE [ok |-> TRUE, val |-> acc, pos |-> pos, count |-> count]

read_number(s, pos, maxDigits, allowZeroPrefix, maxVal) ==
    LET hasLeadingZero == pos <= Len(s) /\ s[pos] = "0"
        r == ReadDigits(s, pos, 0, 0, maxDigits, maxVal)
    IN  IF ~r.ok THEN [ok |-> FALSE, val |-> 0, pos |-> pos]
        ELSE IF r.count = 0 THEN [ok |-> FALSE, val |-> 0, pos |-> pos]
        ELSE IF ~allowZeroPrefix /\ hasLeadingZero /\ r.count > 1
             THEN [ok |-> FALSE, val |-> 0, pos |-> pos]
        ELSE [ok |-> TRUE, val |-> r.val, pos |-> r.pos]

\* Parser::read_ipv4_addr: four octets separated by '.', each read with
\* read_number(10, Some(3), false).  Returns [ok, ip, pos].
RECURSIVE ReadOctets(_, _, _, _)
ReadOctets(s, pos, i, groups) ==
    IF i = 4 THEN [ok |-> TRUE, ip |-> groups, pos |-> pos]
    ELSE LET sepOk == i = 0 \/ (pos <= Len(s) /\ s[pos] = ".")
             p1 == IF i = 0 THEN pos ELSE pos + 1
         IN  IF ~sepOk THEN [ok |-> FALSE, ip |-> <<>>, pos |-> pos]
             ELSE LET n == read_number(s, p1, 3, FALSE, U8Max) IN
                  IF ~n.ok THEN [ok |-> FALSE, ip |-> <<>>, pos |-> pos]
                  ELSE ReadOctets(s, n.pos, i + 1, Append(groups, n.val))

read_ipv4_addr(s, pos) == ReadOctets(s, pos, 0, <<>>)

\* Parser::read_port: ':' followed by read_number(10, None, true) as u16.
read_port(s, pos) ==
    IF pos <= Len(s) /\ s[pos] = ":"
    THEN read_number(s, pos + 1, 0, TRUE, U16Max)
    ELSE [ok |-> FALSE, val |-> 0, pos |-> pos]

\* <SocketAddr as FromStr>::from_str: the V4 form, then the bracketed V6
\* form; the whole input must be consumed.  The V6 form starts with '[',
\* which is not in Chars, so it rejects every text considered here.
parse_SocketAddr(s) ==
    LET ip == read_ipv4_addr(s, 1) IN
    IF ~ip.ok THEN [ok |-> FALSE]
    ELSE LET p == read_port(s, ip.pos) IN
         IF p.ok /\ p.pos = Len(s) + 1
         THEN [ok |-> TRUE, ip |-> ip.ip, port |-> p.val]
         ELSE [ok |-> FALSE]

\* <SocketAddr as Display>::fmt for a V4 address: "a.b.c.d:port".
SocketAddr_to_string(ip, port) ==
    DecStr(ip[1]) \o <<".">> \o DecStr(ip[2]) \o <<".">> \o DecStr(ip[3])
        \o <<".">> \o DecStr(ip[4]) \o <<":">> \o DecStr(port)

----------------------------------------------------------------------------
(* core::num: u16::from_str_radix(src, 10) *)

RECURSIVE AccDigits(_, _, _)
AccDigits(s, pos, acc) ==
    IF pos > Len(s) THEN [ok |-> TRUE, val |-> acc]
    ELSE IF ~IsDigit(s[pos]) THEN [ok |-> FALSE, val |-> 0]
    ELSE LET v == acc * 10 + DigitVal(s[pos]) IN
         IF v > U16Max THEN [ok |-> FALSE, val |-> 0]
         ELSE AccDigits(s, pos + 1, v)

\* Empty text, a lone sign, a '-' sign, a non-digit and an overflow are
\* errors; one leading '+' is accepted.
u16_from_str_radix(s) ==
    IF Len(s) = 0 THEN [ok |-> FALSE, val |-> 0]
    ELSE IF Len(s) = 1 /\ s[1] \in {"+", "-"} THEN [ok |-> FALSE, val |-> 0]
    ELSE IF s[1] = "+" THEN AccDigits(s, 2, 0)
    ELSE AccDigits(s, 1, 0)

\* s.split(':').collect::<Vec<&str>>(): always at least one part.
RECURSIVE split(_, _)
split(s, sep) ==
    IF \A i \in 1..Len(s) : s[i] # sep THEN <<s>>
    ELSE LET k == CHOOSE i \in 1..Len(s) :
                      s[i] = sep /\ \A j \in 1..(i - 1) : s[j] # sep
         IN  <<SubSeq(s, 1, k - 1)>> \o split(SubSeq(s, k + 1, Len(s)), sep)

----------------------------------------------------------------------------
(* Address *)

Domain(name, port) == [tag |-> "Domain", name |-> name, port |-> port]
Ip(addr) == [tag |-> "Ip", addr |-> addr]
Panic == [tag |-> "Panic"]

\* std::net::SocketAddr (V4): SocketAddr::new(ip, port), SocketAddr::port
SocketAddr_new(ip, port) == [ip |-> ip, port |-> port]

\* Address::port reading the port of the Domain variant only
Address_port_mut(a) ==
    IF a.tag = "Domain" THEN a.port ELSE 0

\* Address::port
Address_port(a) ==
    IF a.tag = "Domain" THEN a.port ELSE a.addr.port

\* Address::host
Address_host(a) ==
    IF a.tag = "Domain" THEN a.name
    ELSE SocketAddr_to_string(a.addr.ip, a.addr.port)

\* impl Display for Address
Address_fmt(a) ==
    IF a.tag = "Domain" THEN a.name \o <<":">> \o DecStr(a.port)
    ELSE SocketAddr_to_string(a.addr.ip, a.addr.port)

\* impl Into<String> for Address
Address_into(a) ==
    IF a.tag = "Domain" THEN a.name \o <<":">> \o DecStr(a.port)
    ELSE SocketAddr_to_string(a.addr.ip, a.addr.port)

\* impl TryFrom<(String, u16)> for Address
Address_try_from(name, port) == Domain(name, port)

\* impl From<String> for Address.  parts.get(0) is the text before the
\* first ':' and is never absent; unwrap() on a failed from_str_radix
\* panics; the Domain variant is given the whole input text.
Address_from(s) ==
    LET sa == parse_SocketAddr(s) IN
    IF sa.ok THEN Ip(SocketAddr_new(sa.ip, sa.port))
    ELSE LET parts == split(s, ":")
             first == IF Len(parts) >= 1 THEN parts[1] ELSE <<"0">>
             port == u16_from_str_radix(first)
         IN  IF port.ok THEN Domain(s, port.val) ELSE Panic

----------------------------------------------------------------------------
(* Inputs of the Address conversions *)

OctetTexts == {<<"1">>, <<"0">>, <<"0", "1">>, <<"1", "7", "7">>, <<"7", "1", "1">>}
IpTexts ==
    {o1 \o <<".", "0", ".", "0", ".">> \o o4 : o1 \in OctetTexts, o4 \in OctetTexts}
NameTexts == StrsUpTo(NameChars, MaxNameLen) \ {<<>>}
HostTexts == IpTexts \cup NameTexts
PortTexts == StrsUpTo(PortDigitChars, MaxPortDigits) \cup {<<"a">>, <<"+", "7">>}

Inputs ==
    StrsUpTo(Chars, MaxLen) \cup HostTexts
        \cup {h \o <<":">> \o p : h \in HostTexts, p \in PortTexts}

PortVals == {0, 7, 80, U16Max}
IpVals == {<<1, 0, 0, 1>>, <<177, 0, 0, 77>>, <<0, 0, 0, 0>>, <<255, 255, 255, 255>>}
SocketAddrs == {SocketAddr_new(ip, p) : ip \in IpVals, p \in PortVals}
Pairs == {[name |-> n, port |-> p] : n \in NameTexts, p \in PortVals}

IsAddress(a) == a.tag \in {"Domain", "Ip"}

----------------------------------------------------------------------------
(* The conversion chain: text -> Address -> text -> Address *)

AddrInit ==
    /\ a_str2 = None /\ a_addr2 = None /\ a_port = None
    /\ \/ \E s \in Inputs :
             a_pc = "start" /\ a_str = Str(s) /\ a_pair = None /\ a_addr = None
       \/ \E pr \in Pairs :
             a_pc = "start" /\ a_str = None /\ a_pair = pr /\ a_addr = None
       \/ \E sa \in SocketAddrs :
             a_pc = "have_addr" /\ a_str = None /\ a_pair = None /\ a_addr = Ip(sa)

\* Address::from(s)
FromString ==
    /\ a_pc = "start" /\ a_str # None
    /\ a_addr' = Address_from(a_str.s)
    /\ a_pc' = "have_addr"
    /\ UNCHANGED <<a_str, a_pair, a_str2, a_addr2, a_port>>
    /\ UNCHANGED <<dnsVars, sockVars>>

\* Address::try_from((name, port))
TryFromPair ==
    /\ a_pc = "start" /\ a_pair # None
    /\ a_addr' = Address_try_from(a_pair.name, a_pair.port)
    /\ a_pc' = "have_addr"
    /\ UNCHANGED <<a_str, a_pair, a_str2, a_addr2, a_port>>
    /\ UNCHANGED <<dnsVars, sockVars>>

\* a.port()
CallPort ==
    /\ a_pc = "have_addr" /\ IsAddress(a_addr) /\ a_port = None
    /\ a_port' = [tag |-> "U16", v |-> Address_port(a_addr)]
    /\ UNCHANGED <<a_pc, a_str, a_pair, a_addr, a_str2, a_addr2>>
    /\ UNCHANGED <<dnsVars, sockVars>>

\* a.to_string(), through impl Display
Display ==
    /\ a_pc = "have_addr" /\ IsAddress(a_addr)
    /\ a_str2' = Str(Address_fmt(a_addr))
    /\ a_pc' = "have_text"
    /\ UNCHANGED <<a_str, a_pair, a_addr, a_addr2, a_port>>
    /\ UNCHANGED <<dnsVars, sockVars>>

\* let s: String = a.into()
IntoString ==
    /\ a_pc = "have_addr" /\ IsAddress(a_addr)
    /\ a_str2' = Str(Address_into(a_addr))
    /\ a_pc' = "have_text"
    /\ UNCHANGED <<a_str, a_pair, a_addr, a_addr2, a_port>>
    /\ UNCHANGED <<dnsVars, sockVars>>

\* Address::from(rendered text)
Reparse ==
    /\ a_pc = "have_text"
    /\ a_addr2' = Address_from(a_str2.s)
    /\ a_pc' = "done"
    /\ UNCHANGED <<a_str, a_pair, a_addr, a_str2, a_port>>
    /\ UNCHANGED <<dnsVars, sockVars>>

AddrNext ==
    \/ FromString
    \/ TryFromPair
    \/ CallPort
    \/ Display
    \/ IntoString
    \/ Reparse

AddrIdle ==
    /\ a_pc = "off" /\ a_str = None /\ a_pair = None /\ a_addr = None
    /\ a_str2 = None /\ a_addr2 = None /\ a_port = None

----------------------------------------------------------------------------
(* tokio::sync::RwLock<DnsClient>: a fair, write-preferring lock.  A read *)
(* takes one permit of the semaphore and a write takes all of them; tasks *)
(* that cannot be served wait in a FIFO queue, and a queued writer keeps   *)
(* later readers behind it.                                                *)

Conns == 1..NumConns
W == 0      \* the mutating task, as a queue entry

\* a lock whose readers exclude each other
CanRead_mut(rd, wr, q) == rd = {} /\ wr # "writing" /\ q = <<>>

CanRead(rd, wr, q) == wr # "writing" /\ q = <<>>

CanWrite(rd, wr, q) == rd = {} /\ wr # "writing" /\ q = <<>>

\* a read guard that is never given back
DropGuard_mut(rd, c) == rd

\* Dropping a read guard gives its permit back.
DropGuard(rd, c) == rd \ {c}

\* Released permits are handed to the queued tasks in queue order.
RECURSIVE Wake(_, _, _)
Wake(q, rd, wr) ==
    IF q = <<>> THEN [q |-> q, rd |-> rd, wr |-> wr]
    ELSE IF Head(q) = W
         THEN IF rd = {} /\ wr # "writing"
              THEN [q |-> Tail(q), rd |-> rd, wr |-> "writing"]
              ELSE [q |-> q, rd |-> rd, wr |-> wr]
         ELSE IF wr # "writing"
              THEN Wake(Tail(q), rd \cup {Head(q)}, wr)
              ELSE [q |-> q, rd |-> rd, wr |-> wr]

----------------------------------------------------------------------------
(* name_to_socket_addr, connect_to_remote_tcp, connect_to_remote_udp *)

ResOk(sa) == [tag |-> "Ok", addr |-> sa]
ResErr(kind) == [tag |-> "Err", kind |-> kind]

Fns == {"name_to_socket_addr", "connect_to_remote_tcp", "connect_to_remote_udp"}

DnsIps == {<<10, 0, 0, 1>>, <<10, 0, 0, 2>>}
LookupResults ==
    {[ok |-> TRUE, ips |-> s] : s \in StrsUpTo(DnsIps, MaxIps)}
        \cup {[ok |-> FALSE, ips |-> <<>>]}

NameOf(c) == <<"n", DigitChar(c)>>
LiteralAddr == SocketAddr_new(<<127, 0, 0, 1>>, 9000)
AddrChoices(c) == {Domain(NameOf(c), 443), Ip(LiteralAddr)}

\* match addr { Address::Domain(..) => <lookup>, Address::Ip(..) => .. }
IsDomainArm(a) == a.tag = "Domain"

\* an Address::Ip arm that loses the port
IpArm_mut(a) == ResOk(SocketAddr_new(a.addr.ip, 0))

\* the Address::Ip arm
IpArm(a) == ResOk(a.addr)

\* &format!("{}:{}", name, port)
LookupKey(a) == a.name \o <<":">> \o DecStr(a.port)

\* arms that take the last address returned instead of the first
MatchLookup_mut(look, port) ==
    IF look.ok
    THEN IF Len(look.ips) >= 1
         THEN ResOk(SocketAddr_new(look.ips[Len(look.ips)], port))
         ELSE ResErr("NoAddressFound")
    ELSE ResErr("Resolution")

\* the arms over the lookup result: first address or "dns not ip found",
\* or the lookup's own error
MatchLookup(look, port) ==
    IF look.ok
    THEN IF Len(look.ips) >= 1
         THEN ResOk(SocketAddr_new(look.ips[1], port))
         ELSE ResErr("NoAddressFound")
    ELSE ResErr("Resolution")

\* What the caller does with the value of name_to_socket_addr(..).await?:
\* the next suspension point, the connect target and the returned value.
ContinuePc(fn, res) ==
    IF fn = "name_to_socket_addr" \/ res.tag = "Err" THEN "done" ELSE "connecting"
ContinueConn(fn, res) ==
    IF fn = "name_to_socket_addr" \/ res.tag = "Err" THEN None ELSE ResOk(res.addr)
ContinueRet(fn, res) ==
    IF fn = "name_to_socket_addr" \/ res.tag = "Err" THEN res ELSE None

DnsInit ==
    /\ d_pc = [c \in Conns |-> "init"]
    /\ d_fn \in [Conns -> Fns]
    /\ d_addr \in [Conns -> UNION {AddrChoices(c) : c \in Conns}]
    /\ \A c \in Conns : d_addr[c] \in AddrChoices(c)
    /\ d_look = [c \in Conns |-> None]
    /\ d_query = [c \in Conns |-> None]
    /\ d_res = [c \in Conns |-> None]
    /\ d_conn = [c \in Conns |-> None]
    /\ d_ret = [c \in Conns |-> None]
    /\ readers = {}
    /\ writer = "idle"
    /\ queue = <<>>

\* connect_to_remote_udp: UdpSocket::bind(local).await? fails
UdpBindFails(c) ==
    /\ d_pc[c] = "init" /\ d_fn[c] = "connect_to_remote_udp"
    /\ d_pc' = [d_pc EXCEPT ![c] = "done"]
    /\ d_ret' = [d_ret EXCEPT ![c] = ResErr("Bind")]
    /\ UNCHANGED <<d_fn, d_addr, d_look, d_query, d_res, d_conn,
                   readers, writer, queue>>
    /\ UNCHANGED <<addrVars, sockVars>>

\* Entry of name_to_socket_addr with an Address::Ip: returns at once, and
\* the caller goes on to its connect.
ResolveIp(c) ==
    /\ d_pc[c] = "init" /\ ~IsDomainArm(d_addr[c])
    /\ LET res == IpArm(d_addr[c]) IN
        /\ d_res' = [d_res EXCEPT ![c] = res]
        /\ d_pc' = [d_pc EXCEPT ![c] = ContinuePc(d_fn[c], res)]
        /\ d_conn' = [d_conn EXCEPT ![c] = ContinueConn(d_fn[c], res)]
        /\ d_ret' = [d_ret EXCEPT ![c] = ContinueRet(d_fn[c], res)]
    /\ UNCHANGED <<d_fn, d_addr, d_look, d_query, readers, writer, queue>>
    /\ UNCHANGED <<addrVars, sockVars>>

\* Entry of name_to_socket_addr with an Address::Domain:
\* dns_client.read().await, and lookup(..) as soon as the guard is held.
ReadLock(c) ==
    /\ d_pc[c] = "init" /\ IsDomainArm(d_addr[c])
    /\ IF CanRead(readers, writer, queue)
       THEN /\ readers' = readers \cup {c}
            /\ queue' = queue
            /\ d_pc' = [d_pc EXCEPT ![c] = "lookup"]
            /\ d_query' = [d_query EXCEPT ![c] = Str(LookupKey(d_addr[c]))]
       ELSE /\ readers' = readers
            /\ queue' = Append(queue, c)
            /\ d_pc' = [d_pc EXCEPT ![c] = "wait_read"]
            /\ d_query' = d_query
    /\ UNCHANGED <<d_fn, d_addr, d_look, d_res, d_conn, d_ret, writer>>
    /\ UNCHANGED <<addrVars, sockVars>>

\* lookup(..).await completes with look; the match runs, the read guard is
\* dropped at the end of the match, and the caller goes on.
LookupDone(c, look) ==
    /\ d_pc[c] = "lookup"
    /\ LET res == MatchLookup(look, d_addr[c].port)
           w == Wake(queue, DropGuard(readers, c), writer)
       IN  /\ d_look' = [d_look EXCEPT ![c] = look]
           /\ d_res' = [d_res EXCEPT ![c] = res]
           /\ d_conn' = [d_conn EXCEPT ![c] = ContinueConn(d_fn[c], res)]
           /\ d_ret' = [d_ret EXCEPT ![c] = ContinueRet(d_fn[c], res)]
           /\ readers' = w.rd
           /\ writer' = w.wr
           /\ queue' = w.q
           /\ d_pc' = [x \in Conns |->
                          IF x = c THEN ContinuePc(d_fn[c], res)
                          ELSE IF x \in w.rd \ readers THEN "lookup"
                          ELSE d_pc[x]]
           /\ d_query' = [x \in Conns |->
                          IF x \in w.rd \ readers
                          THEN Str(LookupKey(d_addr[x])) ELSE d_query[x]]
    /\ UNCHANGED <<d_fn, d_addr>>
    /\ UNCHANGED <<addrVars, sockVars>>

\* TcpStream::connect(socket_addr).await / UdpSocket::connect(..).await
ConnectDone(c, ok) ==
    /\ d_pc[c] = "connecting"
    /\ d_pc' = [d_pc EXCEPT ![c] = "done"]
    /\ d_ret' = [d_ret EXCEPT ![c] =
                    IF ok THEN [tag |-> "Ok", peer |-> d_conn[c].addr]
                    ELSE ResErr("Connect")]
    /\ UNCHANGED <<d_fn, d_addr, d_look, d_query, d_res, d_conn,
                   readers, writer, queue>>
    /\ UNCHANGED <<addrVars, sockVars>>

\* A mutation of the DnsClient: dns_client.write().await
WriteLock ==
    /\ writer = "idle"
    /\ IF CanWrite(readers, writer, queue)
       THEN writer' = "writing" /\ queue' = queue
       ELSE writer' = "waiting" /\ queue' = Append(queue, W)
    /\ UNCHANGED <<d_pc, d_fn, d_addr, d_look, d_query, d_res, d_conn, d_ret,
                   readers>>
    /\ UNCHANGED <<addrVars, sockVars>>

\* The write guard is dropped; queued tasks are served in order.
WriteUnlock ==
    /\ writer = "writing"
    /\ LET w == Wake(queue, readers, "idle") IN
           /\ readers' = w.rd
           /\ writer' = w.wr
           /\ queue' = w.q
           /\ d_pc' = [x \in Conns |->
                          IF x \in w.rd \ readers THEN "lookup" ELSE d_pc[x]]
           /\ d_query' = [x \in Conns |->
                          IF x \in w.rd \ readers
                          THEN Str(LookupKey(d_addr[x])) ELSE d_query[x]]
    /\ UNCHANGED <<d_fn, d_addr, d_look, d_res, d_conn, d_ret>>
    /\ UNCHANGED <<addrVars, sockVars>>

DnsNext ==
    \/ \E c \in Conns : UdpBindFails(c)
    \/ \E c \in Conns : ResolveIp(c)
    \/ \E c \in Conns : ReadLock(c)
    \/ \E c \in Conns : \E look \in LookupResults : LookupDone(c, look)
    \/ \E c \in Conns : \E ok \in BOOLEAN : ConnectDone(c, ok)
    \/ WriteLock
    \/ WriteUnlock

DnsIdle ==
    /\ d_pc = <<>> /\ d_fn = <<>> /\ d_addr = <<>> /\ d_look = <<>>
    /\ d_query = <<>> /\ d_res = <<>> /\ d_conn = <<>> /\ d_ret = <<>>
    /\ readers = {} /\ writer = "off" /\ queue = <<>>

----------------------------------------------------------------------------
(* create_bounded_udp_socket, create_bounded_tcp_socket *)

V4(a, b, c, d) == [v |-> "V4", octets |-> <<a, b, c, d>>]
V6Loopback == [v |-> "V6", segments |-> <<0, 0, 0, 0, 0, 0, 0, 1>>]

UdpArgs == {V4(127, 0, 0, 1), V4(0, 0, 0, 0), V6Loopback}
TcpArgs ==
    {[ip |-> ip, port |-> p] :
        ip \in {V4(127, 0, 0, 1), V6Loopback}, p \in {0, 8080}}
        \cup {[ip |-> V4(0, 0, 0, 0), port |-> 8080]}

\* the IpAddr of the argument
ArgIp(fn, arg) == IF fn = "create_bounded_udp_socket" THEN arg ELSE arg.ip

\* match addr { V4(..) => Domain::IPV4, V6(..) => Domain::IPV6 }
SocketDomain(fn, arg) == IF ArgIp(fn, arg).v = "V4" THEN "IPV4" ELSE "IPV6"

SocketType(fn) == IF fn = "create_bounded_udp_socket" THEN "DGRAM" ELSE "STREAM"

\* the address given to socket.bind
BindAddr(fn, arg) ==
    IF fn = "create_bounded_udp_socket" THEN [ip |-> arg, port |-> 0] ELSE arg

\* what a failed setup step writes to the log
LogOnFailure(fn, step) ==
    IF fn = "create_bounded_udp_socket"
    THEN IF step = "bind" THEN <<"failed to bind socket">>
         ELSE <<"failed to set non blocking">>
    ELSE <<>>

SockInit ==
    /\ s_pc = "init"
    /\ \/ s_fn = "create_bounded_udp_socket" /\ s_arg \in UdpArgs
       \/ s_fn = "create_bounded_tcp_socket" /\ s_arg \in TcpArgs
    /\ s_sock = None /\ s_failed = {} /\ s_log = <<>> /\ s_ret = None

\* Socket::new(domain, type, Some(protocol))?
SocketNew(ok) ==
    /\ s_pc = "init"
    /\ IF ok
       THEN /\ s_sock' = [domain |-> SocketDomain(s_fn, s_arg),
                          type |-> SocketType(s_fn),
                          bound |-> None, nonblocking |-> FALSE,
                          peer |-> None, runtime |-> FALSE]
            /\ s_pc' = "created"
            /\ UNCHANGED <<s_failed, s_ret>>
       ELSE /\ s_failed' = s_failed \cup {"socket"}
            /\ s_ret' = ResErr("socket")
            /\ s_pc' = "done"
            /\ UNCHANGED s_sock
    /\ UNCHANGED <<s_fn, s_arg, s_log>>
    /\ UNCHANGED <<addrVars, dnsVars>>

\* socket.bind(..): the UDP factory logs an error, the TCP factory drops
\* the result.
SocketBind(ok) ==
    /\ s_pc = "created"
    /\ IF ok
       THEN /\ s_sock' = [s_sock EXCEPT !.bound = BindAddr(s_fn, s_arg)]
            /\ UNCHANGED <<s_failed, s_log>>
       ELSE /\ s_failed' = s_failed \cup {"bind"}
            /\ s_log' = s_log \o LogOnFailure(s_fn, "bind")
            /\ UNCHANGED s_sock
    /\ s_pc' = "bound"
    /\ UNCHANGED <<s_fn, s_arg, s_ret>>
    /\ UNCHANGED <<addrVars, dnsVars>>

\* socket.set_nonblocking(true): likewise.
SocketSetNonblocking(ok) ==
    /\ s_pc = "bound"
    /\ IF ok
       THEN /\ s_sock' = [s_sock EXCEPT !.nonblocking = TRUE]
            /\ UNCHANGED <<s_failed, s_log>>
       ELSE /\ s_failed' = s_failed \cup {"nonblocking"}
            /\ s_log' = s_log \o LogOnFailure(s_fn, "nonblocking")
            /\ UNCHANGED s_sock
    /\ s_pc' = "configured"
    /\ UNCHANGED <<s_fn, s_arg, s_ret>>
    /\ UNCHANGED <<addrVars, dnsVars>>

\* Ok(UdpSocket::from_std(socket.into())?): registration with the runtime
\* can fail.
UdpFromStd(ok) ==
    /\ s_pc = "configured" /\ s_fn = "create_bounded_udp_socket"
    /\ IF ok
       THEN /\ s_sock' = [s_sock EXCEPT !.runtime = TRUE]
            /\ s_ret' = [tag |-> "Ok", socket |-> s_sock']
            /\ UNCHANGED s_failed
       ELSE /\ s_failed' = s_failed \cup {"from_std"}
            /\ s_ret' = ResErr("from_std")
            /\ UNCHANGED s_sock
    /\ s_pc' = "done"
    /\ UNCHANGED <<s_fn, s_arg, s_log>>
    /\ UNCHANGED <<addrVars, dnsVars>>

\* Ok(TcpSocket::from_std_stream(socket.into())): cannot fail.
TcpFromStdStream ==
    /\ s_pc = "configured" /\ s_fn = "create_bounded_tcp_socket"
    /\ s_sock' = [s_sock EXCEPT !.runtime = TRUE]
    /\ s_ret' = [tag |-> "Ok", socket |-> s_sock']
    /\ s_pc' = "done"
    /\ UNCHANGED <<s_fn, s_arg, s_failed, s_log>>
    /\ UNCHANGED <<addrVars, dnsVars>>

SockNext ==
    \/ \E ok \in BOOLEAN : SocketNew(ok)
    \/ \E ok \in BOOLEAN : SocketBind(ok)
    \/ \E ok \in BOOLEAN : SocketSetNonblocking(ok)
    \/ \E ok \in BOOLEAN : UdpFromStd(ok)
    \/ TcpFromStdStream

SockIdle ==
    /\ s_pc = "off" /\ s_fn = "none" /\ s_arg = None /\ s_sock = None
    /\ s_failed = {} /\ s_log = <<>> /\ s_ret = None

----------------------------------------------------------------------------
(* Specifications *)

\* the Address conversions alone
InitAddr == AddrInit /\ DnsIdle /\ SockIdle
SpecAddr == InitAddr /\ [][AddrNext]_vars

\* the resolution tasks alone
InitDns == AddrIdle /\ DnsInit /\ SockIdle
SpecDns == InitDns /\ [][DnsNext]_vars

\* one socket factory call alone
InitSock == AddrIdle /\ DnsIdle /\ SockInit
SpecSock == InitSock /\ [][SockNext]_vars

----------------------------------------------------------------------------
(* Vocabulary of the Address properties.  The shapes of texts are stated   *)
(* by their grammar, independently of the parser above.                    *)

IsLetter(ch) ==
    ch \in {"a", "b", "c", "d", "e", "f", "g", "h", "i", "j", "k", "l", "m",
            "n", "o", "p", "q", "r", "s", "t", "u", "v", "w", "x", "y", "z"}

AllDigits(t) == \A i \in 1..Len(t) : IsDigit(t[i])

RECURSIVE NumVal(_)
NumVal(t) == IF t = <<>> THEN 0
             ELSE NumVal(SubSeq(t, 1, Len(t) - 1)) * 10 + DigitVal(t[Len(t)])

\* a decimal u16: one or more digits whose value fits in 16 bits
ValidPortText(t) ==
    Len(t) \in 1..9 /\ AllDigits(t) /\ NumVal(t) <= U16Max

\* a decimal octet: 1 to 3 digits, no zero prefix, value at most 255
ValidOctetText(t) ==
    /\ Len(t) \in 1..3 /\ AllDigits(t)
    /\ (Len(t) > 1 => t[1] # "0")
    /\ NumVal(t) <= U8Max

\* dotted quad
ValidIpv4Text(t) ==
    \E i, j, k \in 1..Len(t) :
        /\ i < j /\ j < k
        /\ t[i] = "." /\ t[j] = "." /\ t[k] = "."
        /\ ValidOctetText(SubSeq(t, 1, i - 1))
        /\ ValidOctetText(SubSeq(t, i + 1, j - 1))
        /\ ValidOctetText(SubSeq(t, j + 1, k - 1))
        /\ ValidOctetText(SubSeq(t, k + 1, Len(t)))

\* a host name: letters, digits, '.', '-', with a letter, not edged by '.'
IsDomainName(t) ==
    /\ Len(t) >= 1
    /\ \A i \in 1..Len(t) : IsLetter(t[i]) \/ IsDigit(t[i]) \/ t[i] \in {".", "-"}
    /\ \E i \in 1..Len(t) : IsLetter(t[i])
    /\ t[1] # "." /\ t[Len(t)] # "."

Before(t, k) == SubSeq(t, 1, k - 1)
After(t, k) == SubSeq(t, k + 1, Len(t))

\* "ip:port" / "name:port" with the ':' at position k
IsIpPortAt(t, k) ==
    t[k] = ":" /\ ValidIpv4Text(Before(t, k)) /\ ValidPortText(After(t, k))
IsDomainPortAt(t, k) ==
    t[k] = ":" /\ IsDomainName(Before(t, k)) /\ ValidPortText(After(t, k))

IsIpPortText(t) == \E k \in 1..Len(t) : IsIpPortAt(t, k)
HasValidPortSegment(t) ==
    \E k \in 1..Len(t) : t[k] = ":" /\ ValidPortText(After(t, k))

Parsed == a_str # None /\ a_pc # "start"

SameAddress(b, a) ==
    /\ b.tag = a.tag
    /\ a.tag = "Domain" => (b.name = a.name /\ b.port = a.port)
    /\ a.tag = "Ip" => b.addr = a.addr

----------------------------------------------------------------------------
(* Address properties *)

\* C1: Address::from("<name>:<port>"), with <name> a domain name and <port>
\* a decimal u16, is Domain(<name>, <port>) and does not panic.
C1_DomainPortPreserved ==
    Parsed =>
        \A k \in 1..Len(a_str.s) :
            IsDomainPortAt(a_str.s, k) =>
                /\ a_addr.tag = "Domain"
                /\ a_addr.name = Before(a_str.s, k)
                /\ a_addr.port = NumVal(After(a_str.s, k))

\* C2: parsing a text that is not "ip:port" and has no valid numeric port
\* segment ends in the InvalidAddress error: no Address, no panic.
C2_NoPortIsInvalidAddress ==
    (Parsed /\ ~IsIpPortText(a_str.s) /\ ~HasValidPortSegment(a_str.s)) =>
        a_addr.tag = "InvalidAddress"

\* C3: Address::from of a valid "ip:port" text is the Ip variant, and
\* port() on it is the port written in the text.
C3_IpPortParsesToIp ==
    Parsed =>
        \A k \in 1..Len(a_str.s) :
            IsIpPortAt(a_str.s, k) =>
                /\ a_addr.tag = "Ip"
                /\ a_port # None => a_port.v = NumVal(After(a_str.s, k))

C3_Witness ==
    /\ Parsed /\ IsIpPortText(a_str.s)
    /\ a_addr.tag = "Ip" /\ a_port # None /\ a_port.v = 7777

\* C4: an Address survives to_string / into followed by from with its
\* variant, host and port, and a parseable text survives from followed by
\* to_string.
C4_RoundTrip ==
    /\ a_pc = "done" => SameAddress(a_addr2, a_addr)
    /\ (a_str # None /\ a_pc \in {"have_text", "done"}) => a_str2.s = a_str.s

----------------------------------------------------------------------------
(* Resolution properties *)

InQueue(c) == \E i \in 1..Len(queue) : queue[i] = c

\* C5: for an Address::Domain, an empty lookup result gives the
\* NoAddressFound error, a non-empty one gives the first address with the
\* original port, and a failed lookup gives that failure and no address.
C5_DomainResolution ==
    \A c \in Conns :
        (d_addr[c].tag = "Domain" /\ d_look[c] # None) =>
            /\ (d_look[c].ok /\ d_look[c].ips = <<>>) =>
                   d_res[c] = ResErr("NoAddressFound")
            /\ (d_look[c].ok /\ d_look[c].ips # <<>>) =>
                   d_res[c] = ResOk([ip |-> Head(d_look[c].ips),
                                     port |-> d_addr[c].port])
            /\ ~d_look[c].ok => d_res[c] = ResErr("Resolution")

C5_Witness ==
    \E c \in Conns :
        /\ d_addr[c].tag = "Domain" /\ d_look[c] # None /\ d_look[c].ok
        /\ Len(d_look[c].ips) = 2 /\ d_look[c].ips[1] # d_look[c].ips[2]
        /\ d_res[c].tag = "Ok"

\* C6: for an Address::Ip, name_to_socket_addr returns exactly that address,
\* in any state of the lock, without taking the lock, calling lookup or
\* changing the lock.
C6_IpBypassesDns ==
    [][\A c \in Conns :
          d_addr[c].tag = "Ip" =>
              /\ c \notin readers'
              /\ \A i \in 1..Len(queue') : queue'[i] # c
              /\ d_query'[c] = None /\ d_look'[c] = None
              /\ d_pc[c] = "init" => ENABLED ResolveIp(c)
              /\ (d_res[c] = None /\ d_res'[c] # None) =>
                     /\ d_res'[c] = ResOk(d_addr[c].addr)
                     /\ UNCHANGED <<readers, writer, queue>>]_vars

C6_Witness ==
    \E c \in Conns :
        /\ d_addr[c].tag = "Ip" /\ d_res[c] = ResOk(d_addr[c].addr)
        /\ writer = "waiting" /\ readers # {}

\* C7: a lookup started through name_to_socket_addr waits for nothing but a
\* write section of the DnsClient lock.
C7_WaitsOnlyForWriteSection ==
    \A c \in Conns : d_pc[c] = "wait_read" => writer = "writing"

\* C8: with no mutation pending no reader is kept waiting, so all tasks can
\* be inside lookup together, and each one's lookup can complete whatever
\* the others do.
C8_ReadersShareTheLock ==
    /\ writer = "idle" => \A c \in Conns : d_pc[c] # "wait_read"
    /\ \A c \in Conns :
           d_pc[c] = "lookup" =>
               /\ c \in readers
               /\ ENABLED (\E look \in LookupResults : LookupDone(c, look))

C8_Witness ==
    /\ writer = "idle"
    /\ \A c \in Conns : d_pc[c] = "lookup" /\ c \in readers
    /\ \A c1, c2 \in Conns : c1 # c2 => d_addr[c1].name # d_addr[c2].name

\* C10: connect is attempted only after name_to_socket_addr succeeded and
\* only on the address it returned; a failed resolution ends the function
\* with an error and no connect; no exit path keeps the read guard.
C10_ConnectAfterResolution ==
    \A c \in Conns :
        /\ d_conn[c] # None =>
               (d_res[c].tag = "Ok" /\ d_conn[c].addr = d_res[c].addr)
        /\ d_res[c].tag = "Err" =>
               (d_conn[c] = None /\ d_pc[c] = "done" /\ d_ret[c] = d_res[c])
        /\ (d_ret[c].tag = "Ok" /\ d_fn[c] # "name_to_socket_addr") =>
               (d_conn[c] # None /\ d_ret[c].peer = d_res[c].addr)
        /\ d_pc[c] \in {"connecting", "done"} => (c \notin readers /\ ~InQueue(c))

C10_Witness ==
    /\ \E c \in Conns :
           /\ d_fn[c] = "connect_to_remote_tcp" /\ d_pc[c] = "done"
           /\ d_look[c] # None /\ d_res[c].tag = "Err" /\ d_conn[c] = None
    /\ \E c \in Conns :
           /\ d_fn[c] = "connect_to_remote_udp" /\ d_pc[c] = "done"
           /\ d_look[c] # None /\ d_ret[c].tag = "Ok"

----------------------------------------------------------------------------
(* Socket factory properties *)

Logged(line) == \E i \in 1..Len(s_log) : s_log[i] = line

\* C9: in both factories a failed bind or set_nonblocking is logged and
\* swallowed: the socket still goes to the runtime and is returned, and it
\* is never connected.
C9_SetupFailuresLoggedAndSwallowed ==
    (s_pc = "done" /\ s_sock # None) =>
        /\ "bind" \in s_failed => Logged("failed to bind socket")
        /\ "nonblocking" \in s_failed => Logged("failed to set non blocking")
        /\ s_failed \subseteq {"bind", "nonblocking"} =>
               (s_ret.tag = "Ok" /\ s_ret.socket.runtime)
        /\ s_sock.peer = None

====
